---- MODULE Spec2Model ----
\* A model of pgsnap's script.go: the replay driver (runFakePostgre,
\* acceptConnForScrpt, waitTilSync, sendError) and the script parser
\* (getScript, readScript, unmarshalB, unmarshalF).
\*
\* The driver and the parser are checked under two specifications over the
\* same variables: Spec (the replay task, its connection, its two channels and
\* the owning caller) and ParseSpec (getScript over a bounded script text).
\*
\* External collaborators are modelled by their documented behaviour:
\*   - net.Listener.Accept / net.Conn.SetDeadline may fail;
\*   - the deadline of line 49 is absolute and is never renewed, so once it
\*     has passed (or the peer has gone) every later Receive and Send fails;
\*   - pgproto3.Backend.Send writes to the connection and returns the write
\*     error, which script.go discards;
\*   - pgmock's Script.Run is a black box returning nil or an error;
\*   - the listener s.l is a TCP listener, so the assertion
\*     conn.(*net.TCPConn) of line 70 succeeds.
EXTENDS Integers, Sequences, FiniteSets, TLC

VARIABLES
    \* ---- replay driver ----
    pc,          \* position of the replay task in acceptConnForScrpt
    callerPc,    \* position of the owning caller
    conn,        \* "none" | "open" | "closed": the accepted connection
    accepts,     \* number of Accept calls made
    linger,      \* "default" | "zero": SO_LINGER of the connection
    transport,   \* "none" | "ok" | "dead": can the connection still carry I/O
    err,         \* the task's local variable err ("nil" when unset)
    runs,        \* number of script.Run calls made
    runResult,   \* what script.Run returned ("none" before it has returned)
    i,           \* loop counter of waitTilSync
    recvCount,   \* number of be.Receive calls made by waitTilSync
    recvErrs,    \* how many of them returned an error
    syncSeen,    \* how many of them returned a Sync
    recvLate,    \* number of be.Receive calls made after a Sync was returned
    sendLog,     \* messages the driver passed to be.Send, in order
    wire,        \* messages of the driver that reached the client
    doneCap,     \* capacity of s.done
    errCap,      \* capacity of s.errchan
    doneBuf,     \* buffered content of s.done
    errBuf,      \* buffered content of s.errchan
    doneSent,    \* values whose send on s.done has completed
    errSent,     \* values whose send on s.errchan has completed
    callerGot,   \* what the caller received
    \* ---- script parser ----
    gpc,         \* position in getScript / readScript
    fileOk,      \* does getFile succeed
    text,        \* the lines of the script file
    pos,         \* number of lines the scanner has consumed
    steps,       \* script.Steps being built
    rsOut,       \* result of readScript
    gsOut,       \* result of getScript
    round,       \* which call of getScript on this text is running (1 or 2)
    firstOut     \* what the first call returned

recvVars == <<recvCount, recvErrs, syncSeen, recvLate>>
driverVars == <<pc, callerPc, conn, accepts, linger, transport, err, runs,
                runResult, i, recvVars, sendLog, wire, doneCap,
                errCap, doneBuf, errBuf, doneSent, errSent, callerGot>>
parserVars == <<gpc, fileOk, text, pos, steps, rsOut, gsOut, round, firstOut>>
vars == <<driverVars, parserVars>>
\* ------------------------------------------------------------------
\* Bounds and program constants
\* ------------------------------------------------------------------
\* largest channel capacity considered for s.done and s.errchan
MaxCap == 1
\* largest number of lines in a script text
MaxLines == 3
\* the retry budget of waitTilSync (for i := 0; i < 10; i++)
DrainBudget == 10

\* ------------------------------------------------------------------
\* Error values and messages
\* ------------------------------------------------------------------
AcceptError   == "accept failed"
DeadlineError == "set deadline failed"
\* the errors script.Run can return: a mismatch diff, a transport error,
\* the connection deadline exceeded
MismatchError  == "mismatch diff"
TransportError == "transport error"
TimeoutError   == "i/o timeout"
RunErrors == {MismatchError, TransportError, TimeoutError}

\* err.Error(): the text of an error, as a sequence of text fragments
ErrorText(e) == <<e>>
\* the fixed prefix of sendError
DiffPrefix == <<"pgsnap: diff:\n">>

ErrorResponse(message) ==
    [type |-> "ErrorResponse", Severity |-> "ERROR",
     SeverityUnlocalized |-> "ERROR", Message |-> message]
ReadyForQuery(status) ==
    [type |-> "ReadyForQuery", TxStatus |-> status, Message |-> <<>>,
     Severity |-> "", SeverityUnlocalized |-> ""]

\* ------------------------------------------------------------------
\* The script parser
\* ------------------------------------------------------------------
\* bufio.MaxScanTokenSize: a line of this many bytes or more does not fit the
\* buffer of the bufio.Scanner that readScript creates
MaxScanTokenSize == 65536
\* the length of an ordinary line such as B{"Type":"Sync"}
OrdinaryLen == 16

\* the case labels of the switch in unmarshalB
BTypes == {"AuthenticationOK", "BackendKeyData", "ParseComplete",
           "ParameterDescription", "RowDescription", "ReadyForQuery",
           "BindComplete", "DataRow", "CommandComplete", "EmptyQueryResponse",
           "NoData", "ErrorResponse"}
\* the case labels of the switch in unmarshalF
FTypes == {"StartupMessage", "Parse", "Query", "Describe", "Sync", "Bind",
           "Execute", "Terminate"}

\* the pgproto3 message a case of unmarshalB allocates
BMessage(name) == IF name = "AuthenticationOK" THEN "AuthenticationOk" ELSE name
\* the pgproto3 message a case of unmarshalF allocates
FMessage(name) == name

\* A line of the script text:
\*   tag    its first byte ("" for the empty line)
\*   len    its length in bytes
\*   syntax is b[1:] syntactically valid JSON
\*   typ    the string in the "Type" field of b[1:] ("" if there is none)
\*   fields do the fields of b[1:] decode into the message typ names
Line(tag, len, syntax, typ, fields) ==
    [tag |-> tag, len |-> len, syntax |-> syntax, typ |-> typ, fields |-> fields]

EmptyLine == Line("", 0, FALSE, "", FALSE)
\* a line of one byte: b[1:] is empty, which is not valid JSON
OneByteLines == { Line(t, 1, FALSE, "", FALSE) : t \in {"B", "F", "X"} }
\* a line with another first byte
OtherLines == { Line("X", OrdinaryLen, TRUE, "Sync", TRUE) }
\* B and F lines whose payload is not JSON, or has no Type, or an unknown one,
\* or a Type of the other side's table
UnresolvedLines ==
    { Line(t, OrdinaryLen, FALSE, "", FALSE) : t \in {"B", "F"} } \cup
    { Line(t, OrdinaryLen, TRUE, n, TRUE) : t \in {"B", "F"}, n \in {"", "Bogus"} } \cup
    { Line("B", OrdinaryLen, TRUE, "Query", TRUE),
      Line("F", OrdinaryLen, TRUE, "ReadyForQuery", TRUE) }
\* B and F lines with a Type of their own table, decodable or not
ResolvedLines ==
    { Line("B", OrdinaryLen, TRUE, n, f) :
          n \in {"ReadyForQuery", "AuthenticationOK"}, f \in BOOLEAN } \cup
    { Line("F", OrdinaryLen, TRUE, n, f) : n \in {"Query"}, f \in BOOLEAN } \cup
    { Line("F", OrdinaryLen, TRUE, "Sync", TRUE) }
\* lines too long for the scanner: a well-formed B line such as a large
\* DataRow, an F line whose fields do not decode, a line with another first byte
LongLines == { Line("B", MaxScanTokenSize, TRUE, "DataRow", TRUE),
               Line("F", MaxScanTokenSize, TRUE, "Query", FALSE),
               Line("X", MaxScanTokenSize, FALSE, "", FALSE) }

LineSet == {EmptyLine} \cup OneByteLines \cup OtherLines \cup UnresolvedLines
           \cup ResolvedLines \cup LongLines

\* the script texts of n lines
TextsOfLen(n) == [1..n -> LineSet]

\* pgmock.AcceptUnauthenticatedConnRequestSteps()
AcceptUnauthenticatedConnRequestSteps ==
    << [kind |-> "ExpectAny", msg |-> "StartupMessage", full |-> TRUE],
       [kind |-> "Send", msg |-> "AuthenticationOk", full |-> TRUE],
       [kind |-> "Send", msg |-> "BackendKeyData", full |-> TRUE],
       [kind |-> "Send", msg |-> "ReadyForQuery", full |-> TRUE] >>

\* pgmock.SendMessage(msg) and pgmock.ExpectMessage(msg)
SendMessage(m) == [kind |-> "Send", msg |-> m.msg, full |-> m.full]
ExpectMessage(m) == [kind |-> "Expect", msg |-> m.msg, full |-> m.full]

\* the nil error, the nil message and the nil *pgmock.Script
NoError == [kind |-> "nil", side |-> "", name |-> ""]
NilMessage == [msg |-> "nil", full |-> FALSE]
NilScript == [isNil |-> TRUE, Steps |-> <<>>]
\* &pgmock.Script{Steps: st}
Script(st) == [isNil |-> FALSE, Steps |-> st]
FileError == [kind |-> "file", side |-> "", name |-> ""]
EmptyScript == [kind |-> "script is empty", side |-> "", name |-> ""]
DecodeError == [kind |-> "decode", side |-> "", name |-> ""]
\* fmt.Errorf("B: unknown type `%s`", t.Type) and its F counterpart
UnknownType(side, name) == [kind |-> "unknown type", side |-> side, name |-> name]

\* b[1:], the bytes handed to unmarshalB and unmarshalF
Payload(line) ==
    [len |-> line.len - 1, syntax |-> line.syntax, typ |-> line.typ,
     fields |-> line.fields]

\* json.Unmarshal(src, &t) with its error ignored: t.Type keeps its zero value
\* unless src is valid JSON
DecodeType(src) == IF src.syntax THEN src.typ ELSE ""

\* unmarshalB: the message and the error it returns
unmarshalB(src) ==
    LET name == DecodeType(src) IN
    IF name \notin BTypes
    THEN [msg |-> NilMessage, err |-> UnknownType("B", name)]
    ELSE IF ~src.fields
    THEN [msg |-> NilMessage, err |-> DecodeError]
    ELSE [msg |-> [msg |-> BMessage(name), full |-> TRUE], err |-> NoError]

\* unmarshalF: the message and the error it returns; the error of the second
\* json.Unmarshal is dropped
unmarshalF(src) ==
    LET name == DecodeType(src) IN
    IF name \notin FTypes
    THEN [msg |-> NilMessage, err |-> UnknownType("F", name)]
    ELSE [msg |-> [msg |-> FMessage(name), full |-> src.fields], err |-> NoError]

\* scanner.Scan() returns false at the end of the input and at a line that
\* does not fit its buffer
ScanStops(t, p) ==
    IF p = Len(t) THEN TRUE ELSE t[p + 1].len >= MaxScanTokenSize

\* the body of the loop of readScript for the line b: the steps and the error
\* after it
LoopBody(b, st) ==
    IF b.len < 2 THEN [steps |-> st, err |-> NoError]
    ELSE IF b.tag = "B"
    THEN LET r == unmarshalB(Payload(b)) IN
         IF r.err # NoError THEN [steps |-> st, err |-> r.err]
         ELSE [steps |-> Append(st, SendMessage(r.msg)), err |-> NoError]
    ELSE IF b.tag = "F"
    THEN LET r == unmarshalF(Payload(b)) IN
         IF r.err # NoError THEN [steps |-> st, err |-> r.err]
         ELSE [steps |-> Append(st, ExpectMessage(r.msg)), err |-> NoError]
    ELSE [steps |-> st, err |-> NoError]

Result(script, e) == [script |-> script, err |-> e]

InitParser ==
    /\ gpc = "getFile"
    /\ fileOk \in BOOLEAN
    /\ \E n \in 0..(IF fileOk THEN MaxLines ELSE 0) : text \in TextsOfLen(n)
    /\ pos = 0
    /\ steps = <<>>
    /\ rsOut = Result(NilScript, NoError)
    /\ gsOut = Result(NilScript, NoError)
    /\ round = 1
    /\ firstOut = [rs |-> Result(NilScript, NoError), gs |-> Result(NilScript, NoError)]

\* a Script kept from an earlier call and appended to again
NewStepsReused(stale) ==
    IF stale = <<>> THEN AcceptUnauthenticatedConnRequestSteps ELSE stale

\* script := &pgmock.Script{Steps: pgmock.AcceptUnauthenticatedConnRequestSteps()}:
\* a new Script with a new slice, whatever an earlier call left behind
NewSteps(stale) == AcceptUnauthenticatedConnRequestSteps

\* f, err := s.getFile(), and on success the first statements of readScript:
\* the new Script and the new scanner at the start of the file
getFile ==
    /\ gpc = "getFile"
    /\ IF fileOk
       THEN /\ steps' = NewSteps(steps)
            /\ pos' = 0
            /\ gpc' = "scan"
            /\ gsOut' = gsOut
       ELSE /\ steps' = steps
            /\ pos' = pos
            /\ gpc' = "returned"
            /\ gsOut' = Result(NilScript, FileError)
    /\ UNCHANGED <<fileOk, text, rsOut, round, firstOut>>
    /\ UNCHANGED driverVars

\* one iteration of for scanner.Scan() { ... }
scanLine ==
    /\ gpc = "scan"
    /\ ~ScanStops(text, pos)
    /\ pos' = pos + 1
    /\ LET r == LoopBody(text[pos + 1], steps) IN
         IF r.err # NoError
         THEN /\ rsOut' = Result(NilScript, r.err)
              /\ steps' = steps
              /\ gpc' = "check"
         ELSE /\ rsOut' = rsOut
              /\ steps' = r.steps
              /\ gpc' = "scan"
    /\ UNCHANGED <<fileOk, text, gsOut, round, firstOut>>
    /\ UNCHANGED driverVars

\* scanner.Scan() returns false: return script, nil
scanEnd ==
    /\ gpc = "scan"
    /\ ScanStops(text, pos)
    /\ rsOut' = Result(Script(steps), NoError)
    /\ gpc' = "check"
    /\ UNCHANGED <<fileOk, text, pos, steps, gsOut, round, firstOut>>
    /\ UNCHANGED driverVars

\* len(script.Steps) < len(pgmock.AcceptUnauthenticatedConnRequestSteps())+1,
\* with <= for <
IsEmptyOffByOne(st) == Len(st) <= Len(AcceptUnauthenticatedConnRequestSteps) + 1

\* len(script.Steps) < len(pgmock.AcceptUnauthenticatedConnRequestSteps())+1
IsEmpty(st) == Len(st) < Len(AcceptUnauthenticatedConnRequestSteps) + 1

\* getScript after readScript has returned
getScript ==
    /\ gpc = "check"
    /\ gsOut' = IF rsOut.err # NoError THEN Result(NilScript, rsOut.err)
                ELSE IF IsEmpty(rsOut.script.Steps) THEN Result(rsOut.script, EmptyScript)
                ELSE Result(rsOut.script, NoError)
    /\ gpc' = "returned"
    /\ UNCHANGED <<fileOk, text, pos, steps, rsOut, round, firstOut>>
    /\ UNCHANGED driverVars

\* getScript is called a second time on the same file; the first call's
\* locals are stale memory until the new call overwrites them
getScriptAgain ==
    /\ gpc = "returned"
    /\ round = 1
    /\ round' = 2
    /\ firstOut' = [rs |-> rsOut, gs |-> gsOut]
    /\ gpc' = "getFile"
    /\ UNCHANGED <<fileOk, text, pos, steps, rsOut, gsOut>>
    /\ UNCHANGED driverVars

ParseNext ==
    \/ getFile
    \/ scanLine
    \/ scanEnd
    \/ getScript
    \/ getScriptAgain

\* ------------------------------------------------------------------
\* The replay driver
\* ------------------------------------------------------------------
InitDriver ==
    /\ pc = "notStarted"
    /\ callerPc = "start"
    /\ conn = "none"
    /\ accepts = 0
    /\ linger = "default"
    /\ transport = "none"
    /\ err = "nil"
    /\ runs = 0
    /\ runResult = "none"
    /\ i = 0
    /\ recvCount = 0
    /\ recvErrs = 0
    /\ syncSeen = 0
    /\ recvLate = 0
    /\ sendLog = <<>>
    /\ wire = <<>>
    /\ doneCap \in 0..MaxCap
    /\ errCap \in 0..MaxCap
    /\ doneBuf = <<>>
    /\ errBuf = <<>>
    /\ doneSent = <<>>
    /\ errSent = <<>>
    /\ callerGot = <<>>

\* the parser is idle while the driver is checked
IdleParser ==
    /\ gpc = "idle"
    /\ fileOk = TRUE
    /\ text = <<>>
    /\ pos = 0
    /\ steps = <<>>
    /\ rsOut = [script |-> NilScript, err |-> NoError]
    /\ gsOut = [script |-> NilScript, err |-> NoError]
    /\ round = 1
    /\ firstOut = [rs |-> rsOut, gs |-> gsOut]

Init == InitDriver /\ IdleParser

\* s.acceptConnForScrpt(script) without go: the caller stays inside the call
runFakePostgreSync ==
    /\ callerPc = "start"
    /\ pc = "notStarted"
    /\ pc' = "accept"
    /\ callerPc' = callerPc
    /\ UNCHANGED <<conn, accepts, linger, transport, err, runs, runResult, i,
                   recvVars, sendLog, wire, doneCap, errCap, doneBuf, errBuf,
                   doneSent, errSent, callerGot>>
    /\ UNCHANGED parserVars

\* go s.acceptConnForScrpt(script): the task is started and the caller goes on
runFakePostgre ==
    /\ callerPc = "start"
    /\ pc = "notStarted"
    /\ pc' = "accept"
    /\ callerPc' = "returned"
    /\ UNCHANGED <<conn, accepts, linger, transport, err, runs, runResult, i,
                   recvVars, sendLog, wire, doneCap, errCap, doneBuf, errBuf,
                   doneSent, errSent, callerGot>>
    /\ UNCHANGED parserVars

\* conn, err := s.l.Accept(); on success defer conn.Close() is registered
Accept ==
    /\ pc = "accept"
    /\ accepts' = accepts + 1
    /\ \E ok \in BOOLEAN :
         IF ok
         THEN /\ conn' = "open"
              /\ transport' = "ok"
              /\ err' = "nil"
              /\ pc' = "setDeadline"
         ELSE /\ conn' = conn
              /\ transport' = transport
              /\ err' = AcceptError
              /\ pc' = "sendErrchan"
    /\ UNCHANGED <<callerPc, linger, runs, runResult, i, recvVars, sendLog,
                   wire, doneCap, errCap, doneBuf, errBuf, doneSent, errSent,
                   callerGot>>
    /\ UNCHANGED parserVars

\* SetDeadline whose failure does not make the task return
SetDeadlineIgnored ==
    /\ pc = "setDeadline"
    /\ \E ok \in BOOLEAN :
         IF ok
         THEN /\ err' = "nil"
              /\ pc' = "run"
         ELSE /\ err' = DeadlineError
              /\ pc' = "run"
    /\ UNCHANGED <<callerPc, conn, accepts, linger, transport, runs, runResult,
                   i, recvVars, sendLog, wire, doneCap, errCap, doneBuf,
                   errBuf, doneSent, errSent, callerGot>>
    /\ UNCHANGED parserVars

\* err = conn.SetDeadline(time.Now().Add(time.Second))
SetDeadline ==
    /\ pc = "setDeadline"
    /\ \E ok \in BOOLEAN :
         IF ok
         THEN /\ err' = "nil"
              /\ pc' = "run"
         ELSE /\ err' = DeadlineError
              /\ pc' = "sendErrchan"
    /\ UNCHANGED <<callerPc, conn, accepts, linger, transport, runs, runResult,
                   i, recvVars, sendLog, wire, doneCap, errCap, doneBuf,
                   errBuf, doneSent, errSent, callerGot>>
    /\ UNCHANGED parserVars

\* The deadline passes or the peer goes away: from then on no I/O succeeds.
\* The deadline is absolute and script.go never renews it.
TransportFails ==
    /\ conn = "open"
    /\ transport = "ok"
    /\ transport' = "dead"
    /\ UNCHANGED <<pc, callerPc, conn, accepts, linger, err, runs, runResult,
                   i, recvVars, sendLog, wire, doneCap, errCap, doneBuf,
                   errBuf, doneSent, errSent, callerGot>>
    /\ UNCHANGED parserVars

\* the results script.Run can have on a transport in the given state: the
\* script needs the client's startup message, so it cannot succeed or find a
\* mismatch on a dead transport
RunOutcomes(t) ==
    IF t = "ok" THEN {"nil"} \cup RunErrors
                ELSE {TransportError, TimeoutError}

\* if err != nil { recovery } else { s.done <- struct{}{} }, with the test
\* inverted
AfterRunInverted(r) == IF r # "nil" THEN "sendDone" ELSE "waitTilSync"

\* if err != nil { recovery } else { s.done <- struct{}{} }
AfterRun(r) == IF r = "nil" THEN "sendDone" ELSE "waitTilSync"

\* err = script.Run(be) and the branch on its result
Run ==
    /\ pc = "run"
    /\ runs' = runs + 1
    /\ \E r \in RunOutcomes(transport) :
         /\ err' = r
         /\ runResult' = r
         /\ transport' = IF r \in {TransportError, TimeoutError}
                         THEN "dead" ELSE transport
         /\ pc' = AfterRun(r)
    /\ i' = 0
    /\ UNCHANGED <<callerPc, conn, accepts, linger, recvVars, sendLog, wire,
                   doneCap, errCap, doneBuf, errBuf, doneSent, errSent,
                   callerGot>>
    /\ UNCHANGED parserVars

\* what be.Receive can return: a Sync, another message, or an error (an
\* undecodable message on a live transport; always an error on a dead one)
ReceiveOutcomes(t) ==
    IF t = "ok" THEN {"Sync", "Other", "error"} ELSE {"error"}

\* waitTilSync leaving the loop on a Receive error instead of continuing
AfterReceiveAbort(r, n) ==
    IF r = "error" THEN "sendError"
    ELSE IF r = "Sync" THEN "sendError"
    ELSE (IF n + 1 < DrainBudget THEN "waitTilSync" ELSE "sendError")

\* where the loop of waitTilSync goes after one Receive
AfterReceive(r, n) ==
    IF r = "error" THEN (IF n + 1 < DrainBudget THEN "waitTilSync" ELSE "sendError")
    ELSE IF r = "Sync" THEN "sendError"
    ELSE (IF n + 1 < DrainBudget THEN "waitTilSync" ELSE "sendError")

\* one iteration of the loop of waitTilSync
waitTilSync ==
    /\ pc = "waitTilSync"
    /\ i < DrainBudget
    /\ \E r \in ReceiveOutcomes(transport) :
         /\ recvCount' = recvCount + 1
         /\ recvErrs' = IF r = "error" THEN recvErrs + 1 ELSE recvErrs
         /\ syncSeen' = IF r = "Sync" THEN syncSeen + 1 ELSE syncSeen
         /\ recvLate' = IF syncSeen > 0 THEN recvLate + 1 ELSE recvLate
         /\ pc' = AfterReceive(r, i)
         /\ i' = IF r = "Sync" THEN i ELSE i + 1
    /\ UNCHANGED <<callerPc, conn, accepts, linger, transport, err, runs,
                   runResult, sendLog, wire, doneCap, errCap, doneBuf, errBuf,
                   doneSent, errSent, callerGot>>
    /\ UNCHANGED parserVars

\* be.Send whose error is assigned to err instead of being discarded
BeSendAssignsErr(msg, next) ==
    /\ sendLog' = Append(sendLog, msg)
    /\ wire' = IF transport = "ok" THEN Append(wire, msg) ELSE wire
    /\ pc' = next
    /\ err' = IF transport = "ok" THEN err ELSE TransportError
    /\ UNCHANGED <<callerPc, conn, accepts, linger, transport, runs,
                   runResult, i, recvVars, doneCap, errCap, doneBuf, errBuf,
                   doneSent, errSent, callerGot>>
    /\ UNCHANGED parserVars

\* be.Send(msg): the message is written if the transport still carries I/O;
\* the error Send returns is discarded by every caller in script.go
BeSend(msg, next) ==
    /\ sendLog' = Append(sendLog, msg)
    /\ wire' = IF transport = "ok" THEN Append(wire, msg) ELSE wire
    /\ pc' = next
    /\ UNCHANGED <<callerPc, conn, accepts, linger, transport, err, runs,
                   runResult, i, recvVars, doneCap, errCap, doneBuf, errBuf,
                   doneSent, errSent, callerGot>>
    /\ UNCHANGED parserVars

\* sendError, first Send: the ErrorResponse with the diff prefix
sendError ==
    /\ pc = "sendError"
    /\ BeSend(ErrorResponse(DiffPrefix \o ErrorText(err)), "sendErrorReady")

\* sendError, second Send
sendErrorReady ==
    /\ pc = "sendErrorReady"
    /\ BeSend(ReadyForQuery("I"), "sendSecondError")

\* lines 63-67: the second ErrorResponse
sendSecondError ==
    /\ pc = "sendSecondError"
    /\ BeSend(ErrorResponse(ErrorText(err)), "sendSecondReady")

\* line 68
sendSecondReady ==
    /\ pc = "sendSecondReady"
    /\ BeSend(ReadyForQuery("I"), "setLinger")

\* the recovery without the zero-linger setting
SetLingerSkipped ==
    /\ pc = "setLinger"
    /\ linger' = linger
    /\ pc' = "sendErrchan"
    /\ UNCHANGED <<callerPc, conn, accepts, transport, err, runs, runResult, i,
                   recvVars, sendLog, wire, doneCap, errCap, doneBuf, errBuf,
                   doneSent, errSent, callerGot>>
    /\ UNCHANGED parserVars

\* conn.(*net.TCPConn).SetLinger(0)
SetLinger ==
    /\ pc = "setLinger"
    /\ linger' = "zero"
    /\ pc' = "sendErrchan"
    /\ UNCHANGED <<callerPc, conn, accepts, transport, err, runs, runResult, i,
                   recvVars, sendLog, wire, doneCap, errCap, doneBuf, errBuf,
                   doneSent, errSent, callerGot>>
    /\ UNCHANGED parserVars

\* a task that goes back to Accept instead of returning
AfterSendLoop(c) == "accept"

\* a return that runs no deferred call
AfterSendNoDefer(c) == "finished"

\* where the task goes once its channel send has completed: the function
\* returns, and the deferred conn.Close() runs if it was registered
AfterSend(c) == IF c = "open" THEN "deferClose" ELSE "finished"

\* an error branch without its return: control falls through to s.done <-
FallThroughAfterErr(c) == "sendDone"

\* the return that follows each s.errchan <- err
ReturnAfterErr(c) == AfterSend(c)

\* a send that never blocks
CanBufferAlways(buf, cap) == TRUE

\* a channel send can complete when the buffer has room, or when the buffer
\* is empty and the caller is blocked receiving
CanBuffer(buf, cap) == Len(buf) < cap
CanHandOver(buf) == callerPc = "waiting" /\ buf = <<>>

\* s.errchan <- err
sendErrchan ==
    /\ pc = "sendErrchan"
    /\ \/ /\ CanBuffer(errBuf, errCap)
          /\ errBuf' = Append(errBuf, err)
          /\ UNCHANGED <<callerPc, callerGot>>
       \/ /\ ~CanBuffer(errBuf, errCap)
          /\ CanHandOver(errBuf)
          /\ callerGot' = Append(callerGot, [chan |-> "errchan", val |-> err])
          /\ callerPc' = "got"
          /\ UNCHANGED errBuf
    /\ errSent' = Append(errSent, err)
    /\ pc' = ReturnAfterErr(conn)
    /\ UNCHANGED <<conn, accepts, linger, transport, err, runs, runResult, i,
                   recvVars, sendLog, wire, doneCap, errCap, doneBuf,
                   doneSent>>
    /\ UNCHANGED parserVars

\* s.done <- struct{}{}
sendDone ==
    /\ pc = "sendDone"
    /\ \/ /\ CanBuffer(doneBuf, doneCap)
          /\ doneBuf' = Append(doneBuf, "struct{}{}")
          /\ UNCHANGED <<callerPc, callerGot>>
       \/ /\ ~CanBuffer(doneBuf, doneCap)
          /\ CanHandOver(doneBuf)
          /\ callerGot' = Append(callerGot, [chan |-> "done", val |-> "struct{}{}"])
          /\ callerPc' = "got"
          /\ UNCHANGED doneBuf
    /\ doneSent' = Append(doneSent, "struct{}{}")
    /\ pc' = AfterSend(conn)
    /\ UNCHANGED <<conn, accepts, linger, transport, err, runs, runResult, i,
                   recvVars, sendLog, wire, doneCap, errCap, errBuf, errSent>>
    /\ UNCHANGED parserVars

\* a deferred close that always forces zero linger
deferCloseZeroLinger ==
    /\ pc = "deferClose"
    /\ conn' = "closed"
    /\ transport' = "dead"
    /\ pc' = "finished"
    /\ linger' = "zero"
    /\ UNCHANGED <<callerPc, accepts, err, runs, runResult, i,
                   recvVars, sendLog, wire, doneCap, errCap, doneBuf, errBuf,
                   doneSent, errSent, callerGot>>
    /\ UNCHANGED parserVars

\* the deferred conn.Close()
deferClose ==
    /\ pc = "deferClose"
    /\ conn' = "closed"
    /\ transport' = "dead"
    /\ pc' = "finished"
    /\ UNCHANGED <<callerPc, accepts, linger, err, runs, runResult, i,
                   recvVars, sendLog, wire, doneCap, errCap, doneBuf, errBuf,
                   doneSent, errSent, callerGot>>
    /\ UNCHANGED parserVars

\* the owning caller starts to wait for a signal on either channel
CallerWaits ==
    /\ callerPc = "returned"
    /\ callerPc' = "waiting"
    /\ UNCHANGED <<pc, conn, accepts, linger, transport, err, runs, runResult,
                   i, recvVars, sendLog, wire, doneCap, errCap, doneBuf,
                   errBuf, doneSent, errSent, callerGot>>
    /\ UNCHANGED parserVars

\* the waiting caller takes a buffered signal
CallerTakes ==
    /\ callerPc = "waiting"
    /\ \/ /\ doneBuf # <<>>
          /\ callerGot' = Append(callerGot, [chan |-> "done", val |-> Head(doneBuf)])
          /\ doneBuf' = Tail(doneBuf)
          /\ UNCHANGED errBuf
       \/ /\ errBuf # <<>>
          /\ callerGot' = Append(callerGot, [chan |-> "errchan", val |-> Head(errBuf)])
          /\ errBuf' = Tail(errBuf)
          /\ UNCHANGED doneBuf
    /\ callerPc' = "got"
    /\ UNCHANGED <<pc, conn, accepts, linger, transport, err, runs, runResult,
                   i, recvVars, sendLog, wire, doneCap, errCap, doneSent,
                   errSent>>
    /\ UNCHANGED parserVars

TaskStep ==
    \/ Accept
    \/ SetDeadline
    \/ Run
    \/ waitTilSync
    \/ sendError
    \/ sendErrorReady
    \/ sendSecondError
    \/ sendSecondReady
    \/ SetLinger
    \/ sendErrchan
    \/ sendDone
    \/ deferClose

Next ==
    \/ runFakePostgre
    \/ TaskStep
    \/ TransportFails
    \/ CallerWaits
    \/ CallerTakes

Spec == Init /\ [][Next]_vars

\* the driver is idle while the parser is checked
IdleDriver ==
    /\ InitDriver
    /\ doneCap = 0
    /\ errCap = 0

ParseInit == InitParser /\ IdleDriver

ParseSpec == ParseInit /\ [][ParseNext]_vars

\* every Receive of the drain returns, at the latest when the deadline of
\* line 49 passes
FairSpec == Spec /\ WF_vars(waitTilSync)

\* the caller's thread runs the go statement of runFakePostgre; nothing is
\* assumed about Accept, so a client may never connect
CallerFairSpec == Spec /\ WF_vars(runFakePostgre)

\* ------------------------------------------------------------------
\* Properties of the replay driver
\* ------------------------------------------------------------------
Failed == runResult \in RunErrors
NSignals == Len(doneSent) + Len(errSent)

\* the four messages of the Reporting phase for the error e
ReportMessages(e) ==
    << ErrorResponse(DiffPrefix \o ErrorText(e)), ReadyForQuery("I"),
       ErrorResponse(ErrorText(e)), ReadyForQuery("I") >>

\* w holds an ErrorResponse directly followed by a ReadyForQuery
HasErrorThenReady(w) ==
    \E j \in 1..(Len(w) - 1) :
        w[j].type = "ErrorResponse" /\ w[j + 1].type = "ReadyForQuery"

\* C1: one run of acceptConnForScrpt sends exactly one value over done and
\* errchan together: never more than one, and exactly one once it has finished.
C1_ExactlyOneSignal ==
    /\ NSignals <= 1
    /\ pc = "finished" => NSignals = 1

C1_Witness ==
    /\ pc = "finished"
    /\ Failed
    /\ Len(errSent) = 1
    /\ doneSent = <<>>

\* C2: whenever script.Run returned an error, the client has received an
\* ErrorResponse followed by a ReadyForQuery by the time the socket is closed.
C2_ClientAlwaysGetsError ==
    (Failed /\ conn = "closed") => HasErrorThenReady(wire)

\* C3 as claimed: on script failure the error signal is sent only after
\* Draining, Reporting and the forced close of the socket have all finished.
C3_ErrAfterSocketClosed ==
    (Failed /\ errSent # <<>>) =>
        /\ pc \notin {"run", "waitTilSync"}
        /\ Len(sendLog) = 4
        /\ linger = "zero"
        /\ conn = "closed"

\* C3 amended: on script failure the error signal is sent only after Draining,
\* then Reporting, then the zero-linger setting have finished, in that order;
\* the socket itself is closed only after the signal has been sent.
C3_ErrAfterLinger ==
    /\ sendLog # <<>> => pc \notin {"run", "waitTilSync"}
    /\ linger = "zero" => Len(sendLog) = 4
    /\ (Failed /\ errSent # <<>>) => linger = "zero"
    /\ (Failed /\ conn = "closed") => errSent # <<>>

C3_Witness ==
    /\ Failed
    /\ errSent # <<>>
    /\ conn = "open"
    /\ linger = "zero"
    /\ recvCount > 0

\* C4: no run of acceptConnForScrpt ends with an accepted connection open.
C4_ConnClosedOnExit ==
    pc = "finished" => conn # "open"

C4_Witness ==
    /\ pc = "finished"
    /\ conn = "closed"
    /\ err = DeadlineError

\* C5: on the failure path the driver sends exactly the four report messages
\* in order, and the client sees them before the connection is closed.
C5_FourMessagesSeen ==
    (Failed /\ conn = "closed") =>
        /\ sendLog = ReportMessages(runResult)
        /\ wire = ReportMessages(runResult)

\* C6: when script.Run succeeds, one value is sent on done, none on errchan,
\* the drain loop is not entered and the driver sends no message of its own.
C6_SuccessIsDone ==
    runResult = "nil" =>
        /\ errSent = <<>>
        /\ recvCount = 0
        /\ sendLog = <<>>
        /\ Len(doneSent) <= 1
        /\ pc = "finished" => Len(doneSent) = 1

C6_Witness ==
    /\ runResult = "nil"
    /\ pc = "finished"
    /\ Len(doneSent) = 1

\* C7: the drain makes at most DrainBudget Receive calls, makes none after a
\* Sync, counts a failed Receive against the same budget without leaving the
\* loop, and always hands control to Reporting.
C7_DrainTerminates ==
    /\ [](/\ recvCount <= DrainBudget
          /\ recvLate = 0
          /\ syncSeen <= 1
          /\ i = recvCount - syncSeen
          /\ syncSeen = 1 => pc # "waitTilSync"
          /\ (Failed /\ pc # "waitTilSync") =>
                 (syncSeen = 1 \/ recvCount = DrainBudget))
    /\ (pc = "waitTilSync") ~> (pc = "sendError")

C7_Witness ==
    /\ pc = "sendError"
    /\ recvCount = DrainBudget
    /\ recvErrs > 0
    /\ recvErrs < DrainBudget
    /\ syncSeen = 1
\* ------------------------------------------------------------------
\* Properties of the script parser
\* ------------------------------------------------------------------
\* readScript has returned
ReadScriptReturned == fileOk /\ gpc \in {"check", "returned"}
ReadScriptSucceeded == ReadScriptReturned /\ rsOut.err = NoError

\* a line that qualifies for a step: at least 2 bytes, first byte B or F
Qualifies(line) == line.len >= 2 /\ line.tag \in {"B", "F"}

\* the step a qualifying line is to yield: Send for B, Expect for F, of the
\* message type its Type field names
StepOf(line) ==
    IF line.tag = "B" THEN [kind |-> "Send", msg |-> BMessage(line.typ)]
    ELSE [kind |-> "Expect", msg |-> FMessage(line.typ)]

\* kind and message type of each step of a step list
Shape(st) == [k \in 1..Len(st) |-> [kind |-> st[k].kind, msg |-> st[k].msg]]

\* the steps a text is to yield: the handshake prefix, then one step per
\* qualifying line, in input order
RECURSIVE StepsOfLines(_)
StepsOfLines(t) ==
    IF t = <<>> THEN <<>>
    ELSE (IF Qualifies(Head(t)) THEN <<StepOf(Head(t))>> ELSE <<>>)
         \o StepsOfLines(Tail(t))

ExpectedShape(t) == Shape(AcceptUnauthenticatedConnRequestSteps) \o StepsOfLines(t)

\* C8: whenever readScript succeeds, the returned Steps are the handshake
\* prefix followed by exactly one step per line of at least 2 bytes that
\* begins with B or F, in input order, Send for B and Expect for F, of the
\* message type the line names.
C8_OneStepPerLine ==
    ReadScriptSucceeded =>
        /\ ~rsOut.script.isNil
        /\ Shape(rsOut.script.Steps) = ExpectedShape(text)

\* a B or F line of at least 2 bytes that names a Type outside its side's table
NamesUnknownType(line) ==
    /\ Qualifies(line)
    /\ line.syntax
    /\ line.typ # ""
    /\ line.typ \notin (IF line.tag = "B" THEN BTypes ELSE FTypes)

\* a B or F line of at least 2 bytes that yields a step: its Type is in its
\* side's table and, on the B side, its payload decodes
YieldsStep(line) ==
    /\ Qualifies(line)
    /\ line.syntax
    /\ line.typ \in (IF line.tag = "B" THEN BTypes ELSE FTypes)
    /\ line.tag = "B" => line.fields

\* the lines before line k are skipped or yield a step
ParsesUpTo(t, k) == \A j \in 1..(k - 1) : ~Qualifies(t[j]) \/ YieldsStep(t[j])

\* C9: if any B or F line of at least 2 bytes names a Type outside its side's
\* table, readScript fails and returns no Script; the error names the side
\* and the Type of that line (of the first such line, when no line before it
\* has already failed).
C9_UnknownTypeFails ==
    ReadScriptReturned =>
        \A k \in 1..Len(text) :
            NamesUnknownType(text[k]) =>
                /\ rsOut.script.isNil
                /\ rsOut.err # NoError
                /\ ParsesUpTo(text, k) =>
                       rsOut.err = UnknownType(text[k].tag, text[k].typ)

\* C10: getScript reports EmptyScript exactly when the file was read, parsing
\* succeeded and the Steps are the bare handshake prefix, and then still
\* returns that Script; with a step after the prefix it returns the Script
\* and no error.
C10_EmptyScriptReported ==
    gpc = "returned" =>
        /\ gsOut.err = EmptyScript <=>
              (/\ fileOk
               /\ rsOut.err = NoError
               /\ rsOut.script.Steps = AcceptUnauthenticatedConnRequestSteps)
        /\ gsOut.err = EmptyScript =>
              gsOut.script = Script(AcceptUnauthenticatedConnRequestSteps)
        /\ (/\ fileOk
            /\ rsOut.err = NoError
            /\ Len(rsOut.script.Steps) > Len(AcceptUnauthenticatedConnRequestSteps)) =>
              (gsOut.err = NoError /\ gsOut.script = rsOut.script)

C10_Witness ==
    /\ gpc = "returned"
    /\ gsOut.err = EmptyScript
    /\ ~gsOut.script.isNil
    /\ Len(text) = MaxLines
\* a B line of at least 2 bytes whose payload is malformed: it is not valid
\* JSON, or its fields do not decode into the message its Type names
MalformedB(line) ==
    /\ Qualifies(line)
    /\ line.tag = "B"
    /\ \/ ~line.syntax
       \/ (line.typ \in BTypes /\ ~line.fields)

\* C11: a B line with a malformed payload makes readScript fail with a decode
\* error, not with the naming error of an unresolved Type, and no Script is
\* returned (stated for the first line that fails).
C11_MalformedBIsDecodeError ==
    ReadScriptReturned =>
        \A k \in 1..Len(text) :
            (MalformedB(text[k]) /\ ParsesUpTo(text, k)) =>
                /\ rsOut.script.isNil
                /\ rsOut.err = DecodeError

\* a line readScript is to skip: shorter than 2 bytes, or with a first byte
\* other than B and F
Skippable(line) == line.len < 2 \/ line.tag \notin {"B", "F"}

\* the scanner is about to read a line
AtLine == gpc = "scan" /\ pos < Len(text)

\* C12: a line shorter than 2 bytes, or with a first byte other than B and F,
\* is skipped: the step that reads it adds no step, raises no error, leaves
\* the steps unchanged, and parsing goes on with the next line.
C12_SkippedLines ==
    [][(AtLine /\ Skippable(text[pos + 1])) =>
           /\ pos' = pos + 1
           /\ steps' = steps
           /\ rsOut' = rsOut
           /\ gpc' = "scan"]_vars

\* C13: a second readScript on the same text returns what the first returned:
\* the same ordered steps or the same error.
C13_ParseTwiceSame ==
    (round = 2 /\ gpc = "returned") =>
        /\ rsOut = firstOut.rs
        /\ gsOut = firstOut.gs

C13_Witness ==
    /\ round = 2
    /\ gpc = "returned"
    /\ fileOk
    /\ rsOut.err = NoError
    /\ Len(rsOut.script.Steps) = Len(AcceptUnauthenticatedConnRequestSteps) + MaxLines

\* an F line of at least 2 bytes whose Type is in the F table but whose
\* payload does not decode into that message
UndecodableF(line) ==
    /\ Qualifies(line)
    /\ line.tag = "F"
    /\ line.syntax
    /\ line.typ \in FTypes
    /\ ~line.fields

\* C18: an F line whose Type resolves but whose payload does not decode does
\* not abort parsing: an Expect step of that type is appended and parsing goes
\* on; on the F side only an unresolved Type aborts.
C18_FDecodeErrorSwallowed ==
    [][/\ (AtLine /\ UndecodableF(text[pos + 1])) =>
             /\ pos' = pos + 1
             /\ Len(steps') = Len(steps) + 1
             /\ Shape(steps')[Len(steps')] = StepOf(text[pos + 1])
             /\ rsOut' = rsOut
             /\ gpc' = "scan"
       /\ (AtLine /\ text[pos + 1].tag = "F" /\ gpc' = "check" /\ rsOut'.err # NoError) =>
             /\ rsOut'.err.kind = "unknown type"
             /\ DecodeType(Payload(text[pos + 1])) \notin FTypes]_vars
\* ------------------------------------------------------------------
\* Further properties of the replay driver
\* ------------------------------------------------------------------
\* C14: runFakePostgre returns without waiting for a client: the caller leaves
\* the call at the moment the task is started, before any Accept, and leaves
\* it even if Accept never returns.
C14_StartDoesNotBlock ==
    /\ [][(callerPc = "start" /\ callerPc' # "start") =>
              (pc' = "accept" /\ accepts' = 0 /\ conn' = "none")]_vars
    /\ <>(callerPc # "start")

C14_Witness ==
    /\ callerPc = "waiting"
    /\ pc = "accept"
    /\ accepts = 0

\* C15: for every error script.Run returns, the script is run once, the
\* recovery is run once, and the value sent on errchan is the error Run
\* returned, also when Receives of the drain and Sends of the report fail.
C15_RunErrorDelivered ==
    Failed =>
        /\ runs = 1
        /\ recvCount <= DrainBudget
        /\ Len(sendLog) <= 4
        /\ doneSent = <<>>
        /\ errSent # <<>> =>
               /\ errSent = <<runResult>>
               /\ sendLog = ReportMessages(runResult)

C15_Witness ==
    /\ runResult = TimeoutError
    /\ errSent = <<TimeoutError>>
    /\ recvErrs = DrainBudget
    /\ wire = <<>>
    /\ Len(sendLog) = 4

\* C16: when setting the deadline fails the task aborts: the error goes to
\* errchan, the script is not run, the drain is not entered, no message is
\* sent to the client, nothing goes to done, and the connection is closed.
C16_DeadlineFailureAborts ==
    err = DeadlineError =>
        /\ pc \in {"sendErrchan", "deferClose", "finished"}
        /\ runs = 0
        /\ recvCount = 0
        /\ sendLog = <<>>
        /\ doneSent = <<>>
        /\ pc # "sendErrchan" => errSent = <<DeadlineError>>
        /\ pc = "finished" => conn = "closed"

C16_Witness ==
    /\ err = DeadlineError
    /\ pc = "finished"
    /\ errSent = <<DeadlineError>>
    /\ conn = "closed"

\* C17: one task calls Accept once and runs the script at most once; an Accept
\* error is reported on errchan and no connection is opened or closed.
C17_SingleAccept ==
    /\ accepts <= 1
    /\ runs <= 1
    /\ pc \notin {"notStarted", "accept"} => accepts = 1
    /\ err = AcceptError =>
          /\ conn = "none"
          /\ runs = 0
          /\ pc \in {"sendErrchan", "finished"}
          /\ pc = "finished" => (errSent = <<AcceptError>> /\ doneSent = <<>>)

C17_Witness ==
    /\ err = AcceptError
    /\ pc = "finished"
    /\ errSent = <<AcceptError>>
    /\ conn = "none"

\* the task is at a channel send that cannot complete: no free buffer slot
\* and the caller is not receiving
BlockedInSend ==
    \/ (pc = "sendErrchan" /\ Len(errBuf) >= errCap /\ callerPc # "waiting")
    \/ (pc = "sendDone" /\ Len(doneBuf) >= doneCap /\ callerPc # "waiting")

\* C19: the deferred Close runs only after the send on done or errchan has
\* completed; while that send is blocked the task stays where it is and the
\* accepted connection stays open.
C19_CloseAfterSend ==
    /\ []((pc \in {"sendErrchan", "sendDone"} /\ err # AcceptError) => conn = "open")
    /\ [][/\ (conn = "open" /\ conn' = "closed") => NSignals = 1
          /\ BlockedInSend => (pc' = pc /\ conn' = conn /\ NSignals' = NSignals)]_vars

C19_Witness ==
    /\ BlockedInSend
    /\ Failed
    /\ conn = "open"
    /\ callerPc = "returned"

\* C20: zero linger is set only on the script-failure path, after the four
\* report messages and before the error signal; on the success path and on
\* the deadline-failure path the linger setting is left alone.
C20_LingerOnlyOnFailure ==
    /\ linger = "zero" =>
          /\ Failed
          /\ sendLog = ReportMessages(runResult)
          /\ pc \in {"sendErrchan", "deferClose", "finished"}
    /\ (Failed /\ errSent # <<>>) => linger = "zero"
    /\ (runResult = "nil" \/ err = DeadlineError) => linger = "default"

C20_Witness ==
    /\ Failed
    /\ linger = "zero"
    /\ errSent = <<>>
    /\ conn = "open"
====
